---- MODULE Spec2Model ----
(***************************************************************************)
(* Model of the payment-aware service gateway of coinrailz_mcp             *)
(* (src/coinrailz_mcp/__init__.py): the identity store (_get_install_id),  *)
(* the usage reporter (_send_telemetry), the trial provisioner             *)
(* (_get_demo_key) and the gateway (call_coinrailz_service).               *)
(*                                                                         *)
(* The coroutines run on one asyncio event loop: the code between two      *)
(* awaits of an HTTP request runs atomically, and other coroutines may run *)
(* while a request is in flight.  Each action below is one such atomic     *)
(* piece: it starts where a coroutine is resumed (called, or handed the    *)
(* result of the request it awaits) and ends where it next suspends on a   *)
(* request or returns.                                                     *)
(***************************************************************************)
EXTENDS Integers, Sequences, FiniteSets, TLC

----------------------------------------------------------------------------
(* Bounds of the model *)

\* at most this many "install" telemetry requests are issued in one run
MaxInstallRequests == 2

\* the coroutines that may be in flight at the same time
Tasks == {"t1", "t2"}

\* the coroutine of the runs in which the tools are called one at a time
MainTask == "t1"

\* the process is started again at most this many times
MaxRestarts == 2

----------------------------------------------------------------------------
(* Python values *)

\* Python's None
None == "<None>"

\* truth value of an Optional[str] (if api_key:, if demo_key:, if _install_id:)
Truthy(x) == x # None /\ x # ""

\* a JSON document as httpx's Response.json() sees it: "invalid" does not
\* parse, "dict" and "list" are what json.loads returns
Body(ty, fields) == [ty |-> ty, fields |-> fields]
BadJson == Body("invalid", <<>>)
ListBody == Body("list", <<>>)
Dict(fields) == Body("dict", fields)
NoBody == Body("none", <<>>)

\* dict.get(key, default)
Get(d, key, default) == IF key \in DOMAIN d THEN d[key] ELSE default

----------------------------------------------------------------------------
(* Module constants *)

COINRAILZ_BASE_URL == "https://coinrailz.com"
FREE_TIER_SERVICES == {"gas-price-oracle", "token-metadata"}
SdkVersion == "1.0.4"
UserAgent == <<"CoinRailz-MCP-Server/", SdkVersion>>
SdkNote == "Used auto-fetched demo key. Set COINRAILZ_API_KEY env var to use your own credits."

----------------------------------------------------------------------------
(* Inputs: what callers ask for and what the remote platform answers *)

\* ServiceCall: service name, payload (None when the tool passes none), method
Services == {"gas-price-oracle", "ping"}
Payloads == {None, "payload-1"}
Methods == {"POST", "GET"}

\* the identifier uuid4 draws, and one left on disk by an earlier process
NewIds == {<<"mcp-", "new">>, <<"mcp-", "new2">>}
OldId == <<"mcp-", "old">>
NoFile == <<"<no file>">>

\* outcome of the file-system calls of one _get_install_id
IoResults == {"ok", "mkdir_fail", "file_fail"}

\* an awaited request either raises (timeout, connection error) or returns a
\* response with a status code and a body
Raised == [kind |-> "raise", status |-> 0, body |-> NoBody]
Resp(status, body) == [kind |-> "resp", status |-> status, body |-> body]
NoResp == [kind |-> "none", status |-> 0, body |-> NoBody]

PriceBody(p) == Dict("accepts" :> << ("maxAmountRequiredUSD" :> p) >>)
DataBody == Dict("data" :> "d1")

\* bodies a 402 may carry
Bodies402 ==
    { BadJson, ListBody, Dict(<<>>), Dict("accepts" :> <<>>),
      Dict("accepts" :> << <<>> >>), PriceBody("0.50") }

\* answers to the first dispatch
DispatchResults ==
    {Raised} \cup {Resp(200, b) : b \in {DataBody, BadJson}}
             \cup {Resp(201, DataBody), Resp(404, DataBody), Resp(500, BadJson)}
             \cup {Resp(402, b) : b \in Bodies402}

\* answers to the retry
RetryResults ==
    {Raised} \cup {Resp(200, b) : b \in {DataBody, BadJson, ListBody}}
             \cup {Resp(201, DataBody), Resp(204, BadJson),
                   Resp(402, PriceBody("0.75")), Resp(500, BadJson)}

\* answers of the demo-key endpoint
DemoResults ==
    {Raised} \cup {Resp(200, b) : b \in {BadJson, ListBody, Dict(<<>>),
                                         Dict("api_key" :> ""),
                                         Dict("api_key" :> "demo-1"),
                                         Dict("api_key" :> "demo-2")}}
             \cup {Resp(201, Dict("api_key" :> "demo-1")), Resp(500, BadJson)}

\* answers of the telemetry endpoint
TelemetryResults == {Raised, Resp(200, BadJson), Resp(500, BadJson)}

Events == {"usage", "install"}

----------------------------------------------------------------------------
(* Pure pieces of the handlers *)

\* str.strip() on the text of the identity file, a sequence of tokens
RECURSIVE StripLeft(_)
StripLeft(s) ==
    IF s # <<>> /\ Head(s) \in {" ", "\n"} THEN StripLeft(Tail(s)) ELSE s
RECURSIVE StripRight(_)
StripRight(s) ==
    IF s # <<>> /\ s[Len(s)] \in {" ", "\n"}
    THEN StripRight(SubSeq(s, 1, Len(s) - 1)) ELSE s
Strip(s) == StripRight(StripLeft(s))

\* httpx Response.raise_for_status(): raises HTTPStatusError unless 2xx
RaisesForStatus(status) == ~(status >= 200 /\ status < 300)

\* the three variants of the value call_coinrailz_service returns
Success(body) == [variant |-> "Success", body |-> body]
TransportError(error) == [variant |-> "TransportError", error |-> error]
\* HttpError with the handlers of lines 189 and 191 in the other order
HttpErrorNoStatus(status) == TransportError(<<"Request failed">>)
HttpError(status) == TransportError(<<"HTTP", status>>)
RequestFailed == TransportError(<<"Request failed">>)
NoResult == [variant |-> "none"]

\* the static part of the payment-required dict
QuickFix ==
    [step_1 |-> "Get FREE demo key: Run any free service first (gas-price-oracle, token-metadata)",
     step_2 |-> "Or buy credits: https://coinrailz.com/credits ($10 minimum)",
     step_3 |-> "Set env var: export COINRAILZ_API_KEY=your_key_here"]
SdkInfo ==
    [get_demo_key |-> "POST https://coinrailz.com/api/sdk/demo-key with your install ID",
     credits_page |-> "https://coinrailz.com/credits",
     documentation |-> "https://coinrailz.com/docs/sdk"]
\* PaymentRequired advertising only the free services other than the one called
PaymentRequiredFromService(service, price) ==
    [variant |-> "PaymentRequired", error |-> "Payment required",
     service |-> service, price_usd |-> price,
     quick_fix |-> QuickFix, free_services |-> FREE_TIER_SERVICES \ {service},
     sdk_info |-> SdkInfo]

PaymentRequired(service, price) ==
    [variant |-> "PaymentRequired", error |-> "Payment required",
     service |-> service, price_usd |-> price,
     quick_fix |-> QuickFix, free_services |-> FREE_TIER_SERVICES,
     sdk_info |-> SdkInfo]

\* data = response.json(); price = data.get("accepts", [{}])[0].get(..., "Unknown")
\* raised: json() fails, data is no dict, or the list is empty
ParsePrice(body) ==
    IF body.ty # "dict" THEN [raised |-> TRUE, price |-> None]
    ELSE LET accepts == Get(body.fields, "accepts", << <<>> >>)
         IN  IF Len(accepts) = 0 THEN [raised |-> TRUE, price |-> None]
             ELSE [raised |-> FALSE,
                   price |-> Get(accepts[1], "maxAmountRequiredUSD", "Unknown")]

\* _get_demo_key with line 106 testing for any 2xx status
_get_demo_key_any_2xx(resp) ==
    IF resp.kind = "raise" THEN None
    ELSE IF RaisesForStatus(resp.status) THEN None
    ELSE IF resp.body.ty # "dict" THEN None
    ELSE Get(resp.body.fields, "api_key", None)

\* what _get_demo_key returns for the answer of the demo-key endpoint
_get_demo_key(resp) ==
    IF resp.kind = "raise" THEN None
    ELSE IF resp.status # 200 THEN None
    ELSE IF resp.body.ty # "dict" THEN None
    ELSE Get(resp.body.fields, "api_key", None)

\* FirstOutcome without the handler of line 191: the exception of the
\* dispatch leaves call_coinrailz_service
FirstOutcomeUncaught(resp) ==
    IF resp.kind = "raise" THEN [variant |-> "exception"]
    ELSE IF RaisesForStatus(resp.status) THEN HttpError(resp.status)
    ELSE IF resp.body.ty = "invalid" THEN RequestFailed
    ELSE Success(resp.body)

\* response.raise_for_status(); return response.json(), with both handlers
FirstOutcome(resp) ==
    IF resp.kind = "raise" THEN RequestFailed
    ELSE IF RaisesForStatus(resp.status) THEN HttpError(resp.status)
    ELSE IF resp.body.ty = "invalid" THEN RequestFailed
    ELSE Success(resp.body)

\* RetryOutcome that reads the price again from the body of a refused retry
RetryOutcomeReadingRetry(resp, service, price) ==
    IF resp.kind = "raise" THEN RequestFailed
    ELSE IF resp.status = 200
         THEN IF resp.body.ty # "dict" THEN RequestFailed
              ELSE Success(Dict(("_sdk_note" :> SdkNote) @@ resp.body.fields))
         ELSE IF ParsePrice(resp.body).raised THEN RequestFailed
         ELSE PaymentRequired(service, ParsePrice(resp.body).price)

\* the retry's answer: the annotated body on 200, the handlers on an
\* exception, and otherwise the fall through to the payment-required dict
RetryOutcome(resp, service, price) ==
    IF resp.kind = "raise" THEN RequestFailed
    ELSE IF resp.status = 200
         THEN IF resp.body.ty # "dict" THEN RequestFailed
              ELSE Success(Dict(("_sdk_note" :> SdkNote) @@ resp.body.fields))
         ELSE PaymentRequired(service, price)

\* headers of the dispatch: the fixed ones, and X-API-KEY when a key is held
BaseHeaders == ("Content-Type" :> <<"application/json">>) @@ ("User-Agent" :> UserAgent)
WithKey(headers, key) == ("X-API-KEY" :> <<key>>) @@ headers

\* client.post(url, json=payload or {}, headers=headers) or client.get(url, headers=headers)
Request(service, payload, method, headers) ==
    [url |-> <<COINRAILZ_BASE_URL, "/x402/", service>>,
     method |-> IF method = "POST" THEN "POST" ELSE "GET",
     json |-> IF method = "POST"
              THEN (IF Truthy(payload) THEN <<payload>> ELSE <<"{}">>)
              ELSE <<>>,
     headers |-> headers]
NoRequest == [url |-> <<>>, method |-> "", json |-> <<>>, headers |-> <<>>]

\* the JSON document _send_telemetry posts
TelemetryPayload(id, event, key) ==
    [installId |-> id, sdkType |-> "python-mcp", sdkVersion |-> SdkVersion,
     event |-> event,
     environment |-> [hasApiKey |-> Truthy(key), baseUrl |-> COINRAILZ_BASE_URL]]
NoPayload == [event |-> ""]

\* _get_install_id without lines 58-59: an identifier is drawn and written
\* whenever the cache is empty, whatever is on disk
_get_install_id_regenerating(cache, file, io, fresh) ==
    IF cache # <<>>
    THEN [raised |-> FALSE, id |-> cache, cache |-> cache, file |-> file]
    ELSE IF io = "mkdir_fail"
    THEN [raised |-> TRUE, id |-> <<>>, cache |-> cache, file |-> file]
    ELSE IF io = "file_fail"
         THEN [raised |-> TRUE, id |-> <<>>, cache |-> fresh, file |-> file]
         ELSE [raised |-> FALSE, id |-> fresh, cache |-> fresh, file |-> fresh]

\* _get_install_id, given the module's cache, the file and what the file
\* system does: the value returned (or raised), the cache and the file after
_get_install_id(cache, file, io, fresh) ==
    IF cache # <<>>
    THEN [raised |-> FALSE, id |-> cache, cache |-> cache, file |-> file]
    ELSE IF io = "mkdir_fail"
    THEN [raised |-> TRUE, id |-> <<>>, cache |-> cache, file |-> file]
    ELSE IF file # NoFile
    THEN IF io = "file_fail"
         THEN [raised |-> TRUE, id |-> <<>>, cache |-> cache, file |-> file]
         ELSE [raised |-> FALSE, id |-> Strip(file), cache |-> Strip(file), file |-> file]
    ELSE IF io = "file_fail"
         THEN [raised |-> TRUE, id |-> <<>>, cache |-> fresh, file |-> file]
         ELSE [raised |-> FALSE, id |-> fresh, cache |-> fresh, file |-> fresh]

----------------------------------------------------------------------------
(* State *)

VARIABLES
    COINRAILZ_API_KEY,  \* the module's credential slot ("" when absent)
    _telemetry_sent,    \* set once a telemetry request was answered
    _install_id,        \* the cached identifier (<<>> for None)
    install_file,       \* text of ~/.coinrailz/install_id (NoFile when absent)
    task,               \* per coroutine: where it is suspended and its locals
    installRequests,    \* telemetry requests issued with event "install"
    minted,             \* last key the provisioner handed to an invocation
                        \* that has returned ("" when none)
    restarts,           \* how many times the process was started again
    idLog               \* what _get_install_id returned: in which process,
                        \* with which identity file on disk, which value

vars == <<COINRAILZ_API_KEY, _telemetry_sent, _install_id, install_file, task,
          installRequests, minted, restarts, idLog>>

\* the log after a _get_install_id that ended as g
Logged(g) ==
    IF g.raised THEN idLog
    ELSE idLog \cup {[process |-> restarts, file |-> g.file, id |-> g.id]}

\* a coroutine that is not running
IdleTask ==
    [pc |-> "idle", op |-> "none", event |-> "",
     service |-> "", payload |-> None, method |-> "",
     slot0 |-> "",            \* the credential slot when the invocation began
     after |-> "",            \* minted when the invocation began
     api_key |-> "", headers |-> <<>>, price |-> None, demo_key |-> None,
     result |-> NoResult,
     telemetry |-> NoPayload, \* the telemetry document posted
     request |-> NoRequest,   \* the first dispatch
     retried |-> NoRequest,   \* the retry
     telemetryDone |-> FALSE, \* the awaited _send_telemetry has returned
     telemetryResult |-> NoResp, \* how the telemetry request ended
     idFailed |-> FALSE,      \* a _get_install_id of this operation raised
     first |-> NoResp, demo |-> NoResp, retry |-> NoResp,
     provisionerCalls |-> 0, retries |-> 0,
     clients |-> 0]           \* the httpx.AsyncClient objects it holds open

\* async with httpx.AsyncClient(...) as client: entering and leaving the block
Opened(r) == [r EXCEPT !.clients = @ + 1]
Closed(r) == [r EXCEPT !.clients = @ - 1]

\* Dispatch without lines 141-142: the held key is not put in the headers
DispatchWithoutKey(r, slot) ==
    [Opened(r) EXCEPT !.pc = "dispatch", !.telemetryDone = TRUE,
              !.api_key = slot, !.headers = BaseHeaders,
              !.request = Request(r.service, r.payload, r.method, BaseHeaders)]

\* Dispatch reading is_free_service (line 133): no key for a free service
DispatchFreeTierWithoutKey(r, slot) ==
    LET headers == IF Truthy(slot) /\ r.service \notin FREE_TIER_SERVICES
                   THEN WithKey(BaseHeaders, slot) ELSE BaseHeaders
    IN  [Opened(r) EXCEPT !.pc = "dispatch", !.telemetryDone = TRUE,
                  !.api_key = slot, !.headers = headers,
                  !.request = Request(r.service, r.payload, r.method, headers)]

\* lines 132-149: the request is built from the slot as it is now and sent
\* with the client opened at line 144
Dispatch(r, slot) ==
    LET headers == IF Truthy(slot) THEN WithKey(BaseHeaders, slot) ELSE BaseHeaders
    IN  [Opened(r) EXCEPT !.pc = "dispatch", !.telemetryDone = TRUE,
                  !.api_key = slot, !.headers = headers,
                  !.request = Request(r.service, r.payload, r.method, headers)]

\* Returned with a client that is made without async with and never closed
ReturnedClientOpen(r, result) == [r EXCEPT !.pc = "done", !.result = result]

\* return of call_coinrailz_service, from inside the async with of line 144
Returned(r, result) == [Closed(r) EXCEPT !.pc = "done", !.result = result]

Init ==
    /\ COINRAILZ_API_KEY \in {"", "env-key"}
    /\ _telemetry_sent = FALSE
    /\ _install_id = <<>>
    /\ install_file \in {NoFile, OldId}
    /\ task = [t \in Tasks |-> IdleTask]
    /\ installRequests = 0
    /\ minted = ""
    /\ restarts = 0
    /\ idLog = {}

----------------------------------------------------------------------------
(* Actions *)

\* call_coinrailz_service that skips the usage message once one was delivered,
\* as line 69 does for "install"
call_coinrailz_service_deduplicating(t, service, payload, method, io, fresh) ==
    /\ task[t].pc = "idle"
    /\ LET g == _get_install_id(_install_id, install_file, io, fresh)
           r == [IdleTask EXCEPT !.op = "call", !.event = "usage",
                                 !.service = service, !.payload = payload,
                                 !.method = method, !.slot0 = COINRAILZ_API_KEY,
                                 !.after = minted]
       IN  IF _telemetry_sent
           THEN /\ task' = [task EXCEPT ![t] = Dispatch(r, COINRAILZ_API_KEY)]
                /\ UNCHANGED <<_install_id, install_file, idLog>>
           ELSE /\ _install_id' = g.cache
                /\ install_file' = g.file
                /\ task' = [task EXCEPT ![t] =
                       IF g.raised
                       THEN Dispatch([r EXCEPT !.idFailed = TRUE], COINRAILZ_API_KEY)
                       ELSE [Opened(r) EXCEPT !.pc = "telemetry",
                                !.telemetry = TelemetryPayload(g.id, "usage", COINRAILZ_API_KEY)]]
                /\ idLog' = Logged(g)
    /\ UNCHANGED <<COINRAILZ_API_KEY, _telemetry_sent, installRequests, minted, restarts>>

\* call_coinrailz_service whose usage message also names the service called
\* and carries the payload
call_coinrailz_service_reporting_call(t, service, payload, method, io, fresh) ==
    /\ task[t].pc = "idle"
    /\ LET g == _get_install_id(_install_id, install_file, io, fresh)
           r == [IdleTask EXCEPT !.op = "call", !.event = "usage",
                                 !.service = service, !.payload = payload,
                                 !.method = method, !.slot0 = COINRAILZ_API_KEY,
                                 !.after = minted]
       IN  /\ _install_id' = g.cache
           /\ install_file' = g.file
           /\ task' = [task EXCEPT ![t] =
                  IF g.raised
                  THEN Dispatch([r EXCEPT !.idFailed = TRUE], COINRAILZ_API_KEY)
                  ELSE [Opened(r) EXCEPT !.pc = "telemetry",
                           !.telemetry =
                               [installId |-> g.id, sdkType |-> "python-mcp",
                                sdkVersion |-> SdkVersion, event |-> "usage",
                                service |-> service, payload |-> payload,
                                environment |->
                                    [hasApiKey |-> Truthy(COINRAILZ_API_KEY),
                                     baseUrl |-> COINRAILZ_BASE_URL]]]]
           /\ idLog' = Logged(g)
    /\ UNCHANGED <<COINRAILZ_API_KEY, _telemetry_sent, installRequests, minted, restarts>>

\* call_coinrailz_service is called: line 130 runs _send_telemetry("usage") up
\* to its request; when _get_install_id raises there, the except swallows it
\* and the dispatch is sent at once
call_coinrailz_service(t, service, payload, method, io, fresh) ==
    /\ task[t].pc = "idle"
    /\ LET g == _get_install_id(_install_id, install_file, io, fresh)
           r == [IdleTask EXCEPT !.op = "call", !.event = "usage",
                                 !.service = service, !.payload = payload,
                                 !.method = method, !.slot0 = COINRAILZ_API_KEY,
                                 !.after = minted]
       IN  /\ _install_id' = g.cache
           /\ install_file' = g.file
           /\ task' = [task EXCEPT ![t] =
                  IF g.raised
                  THEN Dispatch([r EXCEPT !.idFailed = TRUE], COINRAILZ_API_KEY)
                  ELSE [Opened(r) EXCEPT !.pc = "telemetry",
                                 !.telemetry = TelemetryPayload(g.id, "usage", COINRAILZ_API_KEY)]]
           /\ idLog' = Logged(g)
    /\ UNCHANGED <<COINRAILZ_API_KEY, _telemetry_sent, installRequests, minted, restarts>>

\* _send_telemetry(event) called on its own (the usage reporter's report)
_send_telemetry(t, event, io, fresh) ==
    /\ task[t].pc = "idle"
    /\ event = "install" => installRequests < MaxInstallRequests
    /\ LET r == [IdleTask EXCEPT !.op = "report", !.event = event]
           g == _get_install_id(_install_id, install_file, io, fresh)
       IN  IF _telemetry_sent /\ event = "install"
           THEN /\ task' = [task EXCEPT ![t] = [r EXCEPT !.pc = "done"]]
                /\ UNCHANGED <<_install_id, install_file, installRequests, idLog>>
           ELSE /\ _install_id' = g.cache
                /\ install_file' = g.file
                /\ idLog' = Logged(g)
                /\ task' = [task EXCEPT ![t] =
                       IF g.raised THEN [r EXCEPT !.pc = "done", !.idFailed = TRUE]
                       ELSE [Opened(r) EXCEPT !.pc = "telemetry",
                                      !.telemetry = TelemetryPayload(g.id, event, COINRAILZ_API_KEY)]]
                /\ installRequests' =
                       IF ~g.raised /\ event = "install"
                       THEN installRequests + 1 ELSE installRequests
    /\ UNCHANGED <<COINRAILZ_API_KEY, _telemetry_sent, minted, restarts>>

\* TelemetryDone without the except of line 90: the exception of the
\* telemetry request ends the invocation before any dispatch
TelemetryDoneUnswallowed(t, res) ==
    /\ task[t].pc = "telemetry"
    /\ _telemetry_sent' = IF res.kind = "resp" THEN TRUE ELSE _telemetry_sent
    /\ task' = [task EXCEPT ![t] =
           IF res.kind = "raise"
           THEN [Closed(@) EXCEPT !.pc = "done", !.telemetryResult = res,
                          !.result = [variant |-> "exception"]]
           ELSE IF @.op = "call"
           THEN Dispatch([Closed(@) EXCEPT !.telemetryResult = res], COINRAILZ_API_KEY)
           ELSE [Closed(@) EXCEPT !.pc = "done", !.telemetryDone = TRUE,
                          !.telemetryResult = res]]
    /\ UNCHANGED <<COINRAILZ_API_KEY, _install_id, install_file, installRequests,
                   minted, restarts, idLog>>

\* TelemetryDone that sets the flag only for an answer with a 2xx status
TelemetryDoneFlagOn2xx(t, res) ==
    /\ task[t].pc = "telemetry"
    /\ _telemetry_sent' = IF res.kind = "resp" /\ ~RaisesForStatus(res.status)
                          THEN TRUE ELSE _telemetry_sent
    /\ task' = [task EXCEPT ![t] =
           IF @.op = "call"
           THEN Dispatch([Closed(@) EXCEPT !.telemetryResult = res], COINRAILZ_API_KEY)
           ELSE [Closed(@) EXCEPT !.pc = "done", !.telemetryDone = TRUE,
                          !.telemetryResult = res]]
    /\ UNCHANGED <<COINRAILZ_API_KEY, _install_id, install_file, installRequests,
                   minted, restarts, idLog>>

\* the telemetry request ends: lines 89-91, then the caller goes on
TelemetryDone(t, res) ==
    /\ task[t].pc = "telemetry"
    /\ _telemetry_sent' = IF res.kind = "resp" THEN TRUE ELSE _telemetry_sent
    /\ task' = [task EXCEPT ![t] =
           IF @.op = "call"
           THEN Dispatch([Closed(@) EXCEPT !.telemetryResult = res], COINRAILZ_API_KEY)
           ELSE [Closed(@) EXCEPT !.pc = "done", !.telemetryDone = TRUE,
                          !.telemetryResult = res]]
    /\ UNCHANGED <<COINRAILZ_API_KEY, _install_id, install_file, installRequests,
                   minted, restarts, idLog>>

\* the first dispatch ends: lines 151-156 and 169-192
DispatchDone(t, resp, io, fresh) ==
    /\ task[t].pc = "dispatch"
    /\ LET r == [task[t] EXCEPT !.first = resp]
           pp == ParsePrice(resp.body)
           g == _get_install_id(_install_id, install_file, io, fresh)
           priced == [r EXCEPT !.price = pp.price]
           asked == [priced EXCEPT !.provisionerCalls = @ + 1]
       IN  IF resp.kind = "resp" /\ resp.status = 402
           THEN IF pp.raised
                THEN /\ task' = [task EXCEPT ![t] = Returned(r, RequestFailed)]
                     /\ UNCHANGED <<_install_id, install_file, idLog>>
                ELSE IF Truthy(r.api_key)
                THEN /\ task' = [task EXCEPT ![t] =
                            Returned(priced, PaymentRequired(r.service, pp.price))]
                     /\ UNCHANGED <<_install_id, install_file, idLog>>
                ELSE /\ _install_id' = g.cache
                     /\ install_file' = g.file
                     /\ idLog' = Logged(g)
                     /\ task' = [task EXCEPT ![t] =
                            IF g.raised
                            THEN Returned([asked EXCEPT !.idFailed = TRUE],
                                          PaymentRequired(r.service, pp.price))
                            ELSE [Opened(asked) EXCEPT !.pc = "demo_key"]]
           ELSE /\ task' = [task EXCEPT ![t] = Returned(r, FirstOutcome(resp))]
                /\ UNCHANGED <<_install_id, install_file, idLog>>
    /\ UNCHANGED <<COINRAILZ_API_KEY, _telemetry_sent, installRequests, minted, restarts>>

\* DemoKeyDone with the retry sent without the caller's payload
DemoKeyDoneRetryWithoutPayload(t, resp) ==
    /\ task[t].pc = "demo_key"
    /\ LET r == [Closed(task[t]) EXCEPT !.demo = resp, !.demo_key = _get_demo_key(resp)]
           headers == WithKey(r.headers, r.demo_key)
       IN  task' = [task EXCEPT ![t] =
               IF Truthy(r.demo_key)
               THEN [r EXCEPT !.pc = "retry", !.headers = headers,
                              !.retries = @ + 1,
                              !.retried = Request(r.service, None, r.method, headers)]
               ELSE Returned(r, PaymentRequired(r.service, r.price))]
    /\ UNCHANGED <<COINRAILZ_API_KEY, _telemetry_sent, _install_id, install_file,
                   installRequests, minted, restarts, idLog>>

\* DemoKeyDone with the key of the retry taken from a variable shared by the
\* coroutines: the key of another invocation that holds one wins
DemoKeyDoneSharedKey(t, resp) ==
    /\ task[t].pc = "demo_key"
    /\ LET r == [Closed(task[t]) EXCEPT !.demo = resp, !.demo_key = _get_demo_key(resp)]
           others == {u \in Tasks \ {t} : Truthy(task[u].demo_key)}
           shared == IF others = {} THEN r.demo_key
                     ELSE task[CHOOSE u \in others : TRUE].demo_key
           headers == WithKey(r.headers, shared)
       IN  task' = [task EXCEPT ![t] =
               IF Truthy(r.demo_key)
               THEN [r EXCEPT !.pc = "retry", !.headers = headers,
                              !.retries = @ + 1,
                              !.retried = Request(r.service, r.payload, r.method, headers)]
               ELSE Returned(r, PaymentRequired(r.service, r.price))]
    /\ UNCHANGED <<COINRAILZ_API_KEY, _telemetry_sent, _install_id, install_file,
                   installRequests, minted, restarts, idLog>>

\* DemoKeyDone that saves the key it was given next to the identity file's
\* text, to find it again in the next process
DemoKeyDonePersistingKey(t, resp) ==
    /\ task[t].pc = "demo_key"
    /\ LET r == [Closed(task[t]) EXCEPT !.demo = resp, !.demo_key = _get_demo_key(resp)]
           headers == WithKey(r.headers, r.demo_key)
       IN  /\ task' = [task EXCEPT ![t] =
                  IF Truthy(r.demo_key)
                  THEN [r EXCEPT !.pc = "retry", !.headers = headers,
                                 !.retries = @ + 1,
                                 !.retried = Request(r.service, r.payload, r.method, headers)]
                  ELSE Returned(r, PaymentRequired(r.service, r.price))]
           /\ install_file' = IF Truthy(r.demo_key)
                              THEN install_file \o <<"\n", r.demo_key>>
                              ELSE install_file
    /\ UNCHANGED <<COINRAILZ_API_KEY, _telemetry_sent, _install_id,
                   installRequests, minted, restarts, idLog>>

\* the demo-key request ends: lines 106-111, then 157-162 or 169-185
DemoKeyDone(t, resp) ==
    /\ task[t].pc = "demo_key"
    /\ LET r == [Closed(task[t]) EXCEPT !.demo = resp, !.demo_key = _get_demo_key(resp)]
           headers == WithKey(r.headers, r.demo_key)
       IN  task' = [task EXCEPT ![t] =
               IF Truthy(r.demo_key)
               THEN [r EXCEPT !.pc = "retry", !.headers = headers,
                              !.retries = @ + 1,
                              !.retried = Request(r.service, r.payload, r.method, headers)]
               ELSE Returned(r, PaymentRequired(r.service, r.price))]
    /\ UNCHANGED <<COINRAILZ_API_KEY, _telemetry_sent, _install_id, install_file,
                   installRequests, minted, restarts, idLog>>

\* RetryDone that asks for another demo key when the retry is refused again
RetryDoneProvisioningAgain(t, resp) ==
    /\ task[t].pc = "retry"
    /\ task' = [task EXCEPT ![t] =
           IF resp.kind = "resp" /\ resp.status = 402 /\ @.provisionerCalls < 2
           THEN [Opened(@) EXCEPT !.retry = resp, !.pc = "demo_key",
                                  !.provisionerCalls = @ + 1]
           ELSE Returned([@ EXCEPT !.retry = resp],
                         RetryOutcome(resp, @.service, @.price))]
    /\ UNCHANGED <<COINRAILZ_API_KEY, _telemetry_sent, _install_id, install_file,
                   installRequests, minted, restarts, idLog>>

\* the retry ends: lines 164-185 and 189-192
RetryDone(t, resp) ==
    /\ task[t].pc = "retry"
    /\ task' = [task EXCEPT ![t] =
           Returned([@ EXCEPT !.retry = resp],
                    RetryOutcome(resp, @.service, @.price))]
    /\ UNCHANGED <<COINRAILZ_API_KEY, _telemetry_sent, _install_id, install_file,
                   installRequests, minted, restarts, idLog>>

\* the caller takes the result; the coroutine is gone
Return(t) ==
    /\ task[t].pc = "done"
    /\ minted' = IF Truthy(task[t].demo_key) THEN task[t].demo_key ELSE minted
    /\ task' = [task EXCEPT ![t] = IdleTask]
    /\ UNCHANGED <<COINRAILZ_API_KEY, _telemetry_sent, _install_id, install_file,
                   installRequests, restarts, idLog>>

\* what one coroutine may do next, for given sets of calls and answers
Step(t, services, payloads, methods, ios, ids, dispatched, demos, retried) ==
    \/ \E service \in services, payload \in payloads, method \in methods,
          io \in ios, fresh \in ids :
           call_coinrailz_service(t, service, payload, method, io, fresh)
    \/ \E event \in Events, io \in ios, fresh \in ids :
           _send_telemetry(t, event, io, fresh)
    \/ \E res \in TelemetryResults : TelemetryDone(t, res)
    \/ \E resp \in dispatched, io \in ios, fresh \in ids :
           DispatchDone(t, resp, io, fresh)
    \/ \E resp \in demos : DemoKeyDone(t, resp)
    \/ \E resp \in retried : RetryDone(t, resp)
    \/ Return(t)

\* one coroutine at a time (the tools are called one after the other), with
\* every call and every answer of the sets above
Next ==
    Step(MainTask, Services, Payloads, Methods, IoResults, NewIds,
         DispatchResults, DemoResults, RetryResults)

Spec == Init /\ [][Next]_vars

\* the coroutines interleave at their awaits, with fewer calls and answers
NextConcurrent ==
    \E t \in Tasks :
        Step(t, Services, {"payload-1"}, {"POST"}, {"ok"}, {<<"mcp-", "new">>},
             {Raised, Resp(200, DataBody), Resp(402, BadJson),
              Resp(402, PriceBody("0.50"))},
             {Raised, Resp(200, Dict(<<>>)), Resp(200, Dict("api_key" :> "demo-1")),
              Resp(200, Dict("api_key" :> "demo-2"))},
             {Raised, Resp(200, DataBody), Resp(402, PriceBody("0.75"))})

SpecConcurrent == Init /\ [][NextConcurrent]_vars

\* the process ends and is started again: the module is loaded afresh (lines
\* 40-46) and the identity file is what the last process left
Restart ==
    /\ restarts < MaxRestarts
    /\ restarts' = restarts + 1
    /\ _telemetry_sent' = FALSE
    /\ _install_id' = <<>>
    /\ task' = [t \in Tasks |-> IdleTask]
    /\ installRequests' = 0
    /\ minted' = ""
    /\ UNCHANGED <<COINRAILZ_API_KEY, install_file, idLog>>

\* the identity file may hold what an earlier process wrote, the same with
\* white space around it, or nothing
InitIdentity ==
    /\ COINRAILZ_API_KEY \in {"", "env-key"}
    /\ _telemetry_sent = FALSE
    /\ _install_id = <<>>
    /\ install_file \in {NoFile, OldId, <<" ">> \o OldId \o <<"\n">>, <<>>}
    /\ task = [t \in Tasks |-> IdleTask]
    /\ installRequests = 0
    /\ minted = ""
    /\ restarts = 0
    /\ idLog = {}

\* one coroutine at a time over several lives of the process, with every
\* outcome of the file system and fewer calls and answers
NextIdentity ==
    \/ Step(MainTask, {"ping"}, {"payload-1"}, {"POST"}, IoResults, NewIds,
            {Raised, Resp(200, DataBody), Resp(402, PriceBody("0.50"))},
            {Raised, Resp(200, Dict("api_key" :> "demo-1"))},
            {Raised, Resp(200, DataBody)})
    \/ Restart

SpecIdentity == InitIdentity /\ [][NextIdentity]_vars

----------------------------------------------------------------------------
(* Vocabulary of the properties *)

\* t runs, or has just returned from, call_coinrailz_service
Invocation(t) == task[t].op = "call"
Ended(t) == Invocation(t) /\ task[t].pc = "done"

\* the first dispatch of t was answered with this status
FirstStatus(t, status) ==
    task[t].first.kind = "resp" /\ task[t].first.status = status

\* the value of the X-API-KEY header of a request ("" when it has none)
KeyHeader(request) ==
    IF "X-API-KEY" \in DOMAIN request.headers
    THEN request.headers["X-API-KEY"][1] ELSE ""

\* the body of a Success carries the note about the demo key
HasNote(result) ==
    /\ result.variant = "Success"
    /\ result.body.ty = "dict"
    /\ "_sdk_note" \in DOMAIN result.body.fields

----------------------------------------------------------------------------
(* C1 *)

\* C1: an invocation that starts with no credential held and whose first
\* response is 402 makes exactly one call of the trial provisioner and sends at
\* most one retry, whatever the retry returns.
C1_OneProvisioningOneRetry ==
    \A t \in Tasks :
        (Invocation(t) /\ ~Truthy(task[t].api_key) /\ FirstStatus(t, 402)) =>
            /\ task[t].provisionerCalls = 1
            /\ task[t].retries <= 1

----------------------------------------------------------------------------
(* C2 *)

\* C2: while a pre-supplied credential is held, the dispatch carries it as the
\* X-API-KEY header and the trial provisioner is never called (no demo-key
\* request, no retry), whatever the answer to the dispatch is.
C2_HeldKeySentNoProvisioning ==
    \A t \in Tasks :
        (Invocation(t) /\ Truthy(COINRAILZ_API_KEY)) =>
            /\ task[t].provisionerCalls = 0
            /\ task[t].pc \notin {"demo_key", "retry"}
            /\ task[t].retried = NoRequest
            /\ task[t].pc \in {"dispatch", "done"} =>
                   /\ task[t].request # NoRequest
                   /\ KeyHeader(task[t].request) = COINRAILZ_API_KEY

\* a credential is held, the dispatch was answered 402 and the call returned
C2_Witness ==
    \E t \in Tasks :
        /\ Ended(t) /\ Truthy(COINRAILZ_API_KEY) /\ FirstStatus(t, 402)
        /\ task[t].result.variant = "PaymentRequired"

----------------------------------------------------------------------------
(* C3 *)

\* C3: when the first response is 402 and its body is not JSON, the
\* invocation returns PaymentRequired with price "Unknown".
C3_Malformed402IsPaymentRequired ==
    \A t \in Tasks :
        (Ended(t) /\ FirstStatus(t, 402) /\ task[t].first.body.ty = "invalid") =>
            /\ task[t].result.variant = "PaymentRequired"
            /\ task[t].result.price_usd = "Unknown"

----------------------------------------------------------------------------
(* C4 *)

\* C4: when a trial credential was provisioned after a 402 and the retry
\* raises or returns a non-2xx status, the invocation returns PaymentRequired
\* with the price parsed from the first 402 response.
C4_FailedRetryIsPaymentRequired ==
    \A t \in Tasks :
        (/\ Ended(t) /\ Truthy(task[t].demo_key)
         /\ \/ task[t].retry.kind = "raise"
            \/ task[t].retry.kind = "resp" /\ RaisesForStatus(task[t].retry.status)) =>
            task[t].result =
                PaymentRequired(task[t].service, ParsePrice(task[t].first.body).price)

----------------------------------------------------------------------------
(* C5 *)

\* C5: when a trial credential was provisioned after a 402 and the retry
\* returns a 2xx status with a JSON object, the invocation returns Success with
\* that body and the note; a Success of the first response has no note.
C5_Retry2xxIsAnnotatedSuccess ==
    \A t \in Tasks :
        /\ (/\ Ended(t) /\ Truthy(task[t].demo_key)
            /\ task[t].retry.kind = "resp" /\ ~RaisesForStatus(task[t].retry.status)
            /\ task[t].retry.body.ty = "dict") =>
               /\ HasNote(task[t].result)
               /\ \A k \in DOMAIN task[t].retry.body.fields :
                      task[t].result.body.fields[k] = task[t].retry.body.fields[k]
        /\ (Ended(t) /\ task[t].retry.kind = "none") => ~HasNote(task[t].result)

----------------------------------------------------------------------------
(* C6 *)

\* C6: after an invocation in which the provisioner returned a credential, the
\* credential slot holds that credential, and every later invocation sends it
\* as X-API-KEY on its first dispatch and does not call the provisioner.
C6_ProvisionedKeyKept ==
    /\ minted # "" => COINRAILZ_API_KEY = minted
    /\ \A t \in Tasks :
           (Invocation(t) /\ task[t].after # "" /\ task[t].request # NoRequest) =>
               /\ KeyHeader(task[t].request) = task[t].after
               /\ task[t].provisionerCalls = 0

----------------------------------------------------------------------------
(* C7 *)

\* C7: when an invocation ends the credential slot equals its value before the
\* invocation, and a later invocation that meets a 402 with no credential held
\* calls the provisioner again.
C7_KeyNotCached ==
    \A t \in Tasks :
        /\ Ended(t) => COINRAILZ_API_KEY = task[t].slot0
        /\ (/\ Ended(t) /\ task[t].after # ""
            /\ ~Truthy(task[t].api_key) /\ FirstStatus(t, 402)) =>
               task[t].provisionerCalls = 1

----------------------------------------------------------------------------
(* C8 *)

\* C8: no state of an invocation waits for the telemetry request: while the
\* telemetry send is pending the dispatch has been issued.
C8_TelemetryNotAwaited ==
    \A t \in Tasks :
        (Invocation(t) /\ task[t].pc = "telemetry") => task[t].request # NoRequest

----------------------------------------------------------------------------
(* C9 *)

\* C9: at most one telemetry request with event "install" is issued in the
\* life of the process.
C9_InstallSentOnce == installRequests <= 1

----------------------------------------------------------------------------
(* C10 *)

\* C10: an invocation returns exactly one outcome, Success, PaymentRequired or
\* TransportError, and nothing before it returns; when the dispatch raised, the
\* outcome is the TransportError without a status code.
C10_AlwaysOneOutcome ==
    \A t \in Tasks :
        Invocation(t) =>
            /\ task[t].pc # "done" => task[t].result = NoResult
            /\ task[t].pc = "done" =>
                   task[t].result.variant \in {"Success", "PaymentRequired", "TransportError"}
            /\ (task[t].pc = "done" /\ task[t].first.kind = "raise") =>
                   task[t].result = RequestFailed

\* the dispatch raised and the call returned
C10_Witness ==
    \E t \in Tasks :
        Ended(t) /\ task[t].first.kind = "raise" /\ task[t].result.variant = "TransportError"

----------------------------------------------------------------------------
(* C11 *)

\* C11: a failure of the identity store ends the operation that needed the
\* identifier with a hard failure: the operation does not go on.
C11_IdentityFailureIsHard ==
    \A t \in Tasks :
        task[t].idFailed =>
            task[t].pc = "done" /\ task[t].result.variant = "exception"

----------------------------------------------------------------------------
(* C12 *)

\* C12: all calls of _get_install_id in one process return the same value,
\* calls that leave the same identity file on disk return the same value in
\* whichever process, and an identifier is drawn only when there is no file:
\* a file that exists is never rewritten and the identifier held is its text.
C12_InstallIdStable ==
    /\ [](\A e, f \in idLog :
             /\ e.process = f.process => e.id = f.id
             /\ (e.file = f.file /\ e.file # NoFile) => e.id = f.id)
    /\ [][install_file # NoFile =>
              /\ install_file' = install_file
              /\ _install_id' \in {_install_id, Strip(install_file), <<>>}]_vars

\* two processes found the same identity file and both got an identifier
C12_Witness ==
    \E e, f \in idLog :
        e.process # f.process /\ e.file = f.file /\ e.file # NoFile /\ e.id = f.id

----------------------------------------------------------------------------
(* C13 *)

\* the calls of t and u and every answer but the telemetry's are the same
SameExchange(t, u) ==
    /\ task[t].service = task[u].service
    /\ task[t].payload = task[u].payload
    /\ task[t].method = task[u].method
    /\ task[t].first = task[u].first
    /\ task[t].demo = task[u].demo
    /\ task[t].retry = task[u].retry

\* C13: an invocation returns what the dispatch, provisioning and retry
\* answers determine, whatever the telemetry request did: it is dispatched in
\* any case, and two invocations with the same answers return the same result.
C13_ResultIgnoresTelemetry ==
    \A t, u \in Tasks :
        /\ Ended(t) => task[t].first # NoResp
        /\ (Ended(t) /\ Ended(u) /\ SameExchange(t, u)) =>
               task[t].result = task[u].result

\* two invocations with the same answers, one whose telemetry request raised
\* and one whose telemetry request was answered
C13_Witness ==
    \E t, u \in Tasks :
        /\ Ended(t) /\ Ended(u) /\ SameExchange(t, u)
        /\ task[t].telemetryResult.kind = "raise"
        /\ task[u].telemetryResult.kind = "resp"
        /\ task[t].result.variant = "Success"

----------------------------------------------------------------------------
(* C14 *)

\* the answer of the demo-key endpoint is a 200 with an api_key field
CarriesKey(resp) ==
    /\ resp.kind = "resp" /\ resp.status = 200
    /\ resp.body.ty = "dict" /\ "api_key" \in DOMAIN resp.body.fields

\* C14: the provisioner returns the credential exactly when the answer is a
\* 200 with a credential field and None otherwise; when it yields no
\* credential the invocation returns PaymentRequired with the price of the 402
\* and sends no retry.
C14_ProvisionerAbsence ==
    \A t \in Tasks :
        /\ (task[t].demo.kind # "none" /\ CarriesKey(task[t].demo)) =>
               task[t].demo_key = task[t].demo.body.fields["api_key"]
        /\ (task[t].demo.kind # "none" /\ ~CarriesKey(task[t].demo)) =>
               task[t].demo_key = None
        /\ (task[t].provisionerCalls = 1 /\ ~Truthy(task[t].demo_key)
              /\ task[t].pc # "demo_key") =>
               /\ task[t].pc = "done"
               /\ task[t].result =
                      PaymentRequired(task[t].service, ParsePrice(task[t].first.body).price)
               /\ task[t].retries = 0
               /\ task[t].retried = NoRequest

\* the demo-key endpoint answered 201 with a key and the call returned
C14_Witness ==
    \E t \in Tasks :
        /\ Ended(t) /\ task[t].demo.kind = "resp" /\ task[t].demo.status = 201
        /\ "api_key" \in DOMAIN task[t].demo.body.fields
        /\ task[t].result.variant = "PaymentRequired"
        /\ task[t].result.price_usd = "0.50"

----------------------------------------------------------------------------
(* C15 *)

\* the headers of a request other than X-API-KEY
OtherHeaders(request) ==
    [h \in DOMAIN request.headers \ {"X-API-KEY"} |-> request.headers[h]]

\* C15: the retry has the URL, the method and the payload of the first
\* dispatch (the empty object when the caller gave none), the same fixed
\* headers, and as X-API-KEY the value the demo-key endpoint returned.
C15_RetryIdentical ==
    \A t \in Tasks :
        task[t].retried # NoRequest =>
            /\ task[t].retried.url = task[t].request.url
            /\ task[t].retried.url = <<COINRAILZ_BASE_URL, "/x402/", task[t].service>>
            /\ task[t].retried.method = task[t].request.method
            /\ task[t].retried.method = task[t].method
            /\ task[t].retried.json = task[t].request.json
            /\ (task[t].method = "POST" /\ task[t].payload = None) =>
                   task[t].retried.json = <<"{}">>
            /\ (task[t].method = "POST" /\ task[t].payload # None) =>
                   task[t].retried.json = <<task[t].payload>>
            /\ OtherHeaders(task[t].retried) = OtherHeaders(task[t].request)
            /\ KeyHeader(task[t].retried) = task[t].demo.body.fields["api_key"]

\* a POST with a payload was retried with a provisioned key
C15_Witness ==
    \E t \in Tasks :
        /\ task[t].retried # NoRequest /\ task[t].method = "POST"
        /\ task[t].payload = "payload-1"
        /\ KeyHeader(task[t].retried) = "demo-2"

----------------------------------------------------------------------------
(* C16 *)

\* the price the 402 body states: accepts[0].maxAmountRequiredUSD, and
\* "Unknown" when accepts, its first element or the field is missing
StatedPrice(body) ==
    IF "accepts" \notin DOMAIN body.fields THEN "Unknown"
    ELSE IF Len(body.fields["accepts"]) = 0 THEN "Unknown"
    ELSE Get(body.fields["accepts"][1], "maxAmountRequiredUSD", "Unknown")

\* C16: when the 402 body is a JSON object and no retry is sent, the
\* invocation returns PaymentRequired with the stated price, "Unknown" when
\* accepts is missing or empty or its first element lacks the field.
C16_PriceOrUnknown ==
    \A t \in Tasks :
        (/\ Ended(t) /\ FirstStatus(t, 402)
         /\ task[t].first.body.ty = "dict" /\ task[t].retries = 0) =>
            task[t].result =
                PaymentRequired(task[t].service, StatedPrice(task[t].first.body))

----------------------------------------------------------------------------
(* C17 *)

\* C17: a first response with a non-2xx status other than 402 gives the
\* TransportError with that status, and neither provisioning nor retry,
\* with or without a credential.
C17_OtherStatusIsTransportError ==
    \A t \in Tasks :
        (/\ Ended(t) /\ task[t].first.kind = "resp"
         /\ RaisesForStatus(task[t].first.status) /\ task[t].first.status # 402) =>
            /\ task[t].result.variant = "TransportError"
            /\ task[t].result.error = <<"HTTP", task[t].first.status>>
            /\ task[t].provisionerCalls = 0
            /\ task[t].demo = NoResp
            /\ task[t].retries = 0
            /\ task[t].retried = NoRequest

\* a 500 was answered to an invocation with no credential
C17_Witness ==
    \E t \in Tasks :
        /\ Ended(t) /\ FirstStatus(t, 500) /\ ~Truthy(task[t].api_key)
        /\ task[t].result.variant = "TransportError"

----------------------------------------------------------------------------
(* C18 *)

\* a request or a result with the service name taken out
Unnamed(x) ==
    IF "url" \in DOMAIN x THEN [x EXCEPT !.url = <<>>]
    ELSE IF "service" \in DOMAIN x THEN [x EXCEPT !.service = ""]
    ELSE x

----------------------------------------------------------------------------
(* C19 *)

\* C19: every PaymentRequired carries the free-tier names, the next steps with
\* the environment variable to set and the credit-purchase reference, the same
\* for every 402 body and every service.
C19_GuidanceStatic ==
    \A t \in Tasks :
        (Ended(t) /\ task[t].result.variant = "PaymentRequired") =>
            /\ task[t].result.free_services = {"gas-price-oracle", "token-metadata"}
            /\ task[t].result.quick_fix.step_3 =
                   "Set env var: export COINRAILZ_API_KEY=your_key_here"
            /\ task[t].result.quick_fix.step_2 =
                   "Or buy credits: https://coinrailz.com/credits ($10 minimum)"
            /\ task[t].result.sdk_info.credits_page = "https://coinrailz.com/credits"
            /\ task[t].result.quick_fix = QuickFix
            /\ task[t].result.sdk_info = SdkInfo

\* a free-tier service was answered 402 with a price
C19_Witness ==
    \E t \in Tasks :
        /\ Ended(t) /\ task[t].result.variant = "PaymentRequired"
        /\ task[t].service \in FREE_TIER_SERVICES
        /\ task[t].result.price_usd = "0.50"

----------------------------------------------------------------------------
(* C20 *)

\* C20: with invocations interleaved, the X-API-KEY of an invocation's retry
\* is the credential its own demo-key request returned.
C20_RetryUsesOwnKey ==
    \A t \in Tasks :
        task[t].retried # NoRequest =>
            /\ CarriesKey(task[t].demo)
            /\ KeyHeader(task[t].retried) = task[t].demo.body.fields["api_key"]

\* two invocations are both awaiting their retries, with different keys
C20_Witness ==
    \E t, u \in Tasks :
        /\ task[t].pc = "retry" /\ task[u].pc = "retry"
        /\ KeyHeader(task[t].retried) = "demo-1"
        /\ KeyHeader(task[u].retried) = "demo-2"

----------------------------------------------------------------------------
(* C21 *)

\* C21: an operation that has returned holds no client open, however it
\* ended; while it runs it holds the client of the request in flight, and
\* during the demo-key request also the one of the dispatch.
C21_ClientsReleased ==
    \A t \in Tasks :
        /\ task[t].pc \in {"idle", "done"} => task[t].clients = 0
        /\ task[t].pc \in {"telemetry", "dispatch", "retry"} => task[t].clients = 1
        /\ task[t].pc = "demo_key" => task[t].clients = 2

\* an invocation returned after its telemetry request and its retry raised,
\* having opened three clients
C21_Witness ==
    \E t \in Tasks :
        /\ Ended(t) /\ task[t].clients = 0
        /\ task[t].telemetryResult.kind = "raise"
        /\ task[t].demo.kind = "resp"
        /\ task[t].retry.kind = "raise"

----------------------------------------------------------------------------
(* C22 *)

\* C22: a telemetry message has the installation id, the SDK type and
\* version, the event kind, hasApiKey and the base URL and nothing else, so it
\* is the same whatever the service, the payload and the answers received.
C22_TelemetryCarriesNoContent ==
    \A t \in Tasks :
        task[t].telemetry # NoPayload =>
            task[t].telemetry =
                [installId |-> _install_id,
                 sdkType |-> "python-mcp",
                 sdkVersion |-> "1.0.4",
                 event |-> task[t].event,
                 environment |-> [hasApiKey |-> COINRAILZ_API_KEY # "",
                                  baseUrl |-> "https://coinrailz.com"]]

\* an invocation with a payload sent its message after an earlier invocation
\* had been answered with a demo key, and was answered itself
C22_Witness ==
    \E t \in Tasks :
        /\ Ended(t) /\ task[t].telemetry # NoPayload
        /\ task[t].payload = "payload-1"
        /\ task[t].service = "ping"
        /\ minted = "demo-1"
        /\ FirstStatus(t, 200)

----------------------------------------------------------------------------
(* C23 *)

\* the keys the demo-key endpoint hands out
ProvisionedKeys ==
    {resp.body.fields["api_key"] : resp \in {d \in DemoResults : CarriesKey(d)}}

\* C23: what a process leaves to the next one is the identity file alone, and
\* no key is in it: the file is written only when there is none, with the
\* identifier just drawn, and a file that exists is left as it is by every
\* step; the configured key is never replaced by a provisioned one.
C23_OnlyIdentityPersisted ==
    /\ [](/\ \A i \in DOMAIN install_file : install_file[i] \notin ProvisionedKeys
          /\ COINRAILZ_API_KEY \in {"", "env-key"})
    /\ [][/\ install_file' # install_file =>
                /\ install_file = NoFile
                /\ install_file' \in NewIds
                /\ install_file' = _install_id'
          /\ COINRAILZ_API_KEY' = COINRAILZ_API_KEY]_vars

\* an invocation holds a demo key for its retry in a process that found the
\* identity file an earlier process wrote
C23_Witness ==
    \E t \in Tasks :
        /\ restarts >= 1
        /\ task[t].pc = "retry" /\ task[t].demo_key = "demo-1"
        /\ install_file \in NewIds
        /\ _install_id = install_file
        /\ \E e \in idLog : e.process < restarts /\ e.file = install_file

----------------------------------------------------------------------------
(* C24 *)

\* C24: every invocation runs _send_telemetry("usage") once, whether or not a
\* message was delivered before (the request is posted unless the identifier
\* could not be had), and that has ended, by an answer or by a swallowed
\* failure, before the dispatch is sent.
C24_UsageAttemptBeforeDispatch ==
    \A t \in Tasks :
        Invocation(t) =>
            /\ task[t].event = "usage"
            /\ \/ task[t].telemetry # NoPayload /\ task[t].telemetry.event = "usage"
               \/ task[t].telemetry = NoPayload /\ task[t].idFailed
            /\ task[t].pc = "telemetry" =>
                   /\ task[t].request = NoRequest
                   /\ task[t].telemetryResult = NoResp
                   /\ ~task[t].telemetryDone
            /\ task[t].request # NoRequest =>
                   /\ task[t].telemetryDone
                   /\ task[t].pc # "telemetry"
                   /\ \/ task[t].telemetryResult.kind \in {"resp", "raise"}
                      \/ task[t].telemetry = NoPayload

\* an invocation posts its usage message although one was delivered before
C24_Witness ==
    \E t \in Tasks :
        /\ Invocation(t) /\ task[t].pc = "telemetry" /\ _telemetry_sent
        /\ task[t].telemetry.event = "usage"

----------------------------------------------------------------------------
(* C25 *)

\* how many awaited requests a coroutine at this point may still make
RequestsLeft(pc) ==
    CASE pc = "telemetry" -> 4
      [] pc = "dispatch" -> 3
      [] pc = "demo_key" -> 2
      [] pc = "retry" -> 1
      [] OTHER -> 0

\* the requests an invocation has made so far
RequestsMade(t) ==
    (IF task[t].telemetry # NoPayload THEN 1 ELSE 0)
    + (IF task[t].request # NoRequest THEN 1 ELSE 0)
    + (IF task[t].pc = "demo_key" \/ task[t].demo # NoResp THEN 1 ELSE 0)
    + (IF task[t].retried # NoRequest THEN 1 ELSE 0)

\* C25: an invocation makes at most four requests, one of each kind; the
\* demo-key request comes only after a 402 answer to the dispatch and the
\* retry only after the demo-key answer; and every answer takes the invocation
\* strictly nearer to its return, so it returns once its requests end.
C25_BoundedRequests ==
    /\ [](\A t \in Tasks :
             Invocation(t) =>
                 /\ RequestsMade(t) <= 4
                 /\ task[t].provisionerCalls <= 1
                 /\ task[t].retries <= 1
                 /\ (task[t].pc = "demo_key" \/ task[t].demo # NoResp) =>
                        FirstStatus(t, 402)
                 /\ task[t].retried # NoRequest =>
                        /\ FirstStatus(t, 402)
                        /\ task[t].demo.kind = "resp"
                        /\ task[t].provisionerCalls = 1
                 /\ task[t].first = NoResp =>
                        task[t].demo = NoResp /\ task[t].retried = NoRequest)
    /\ [][\A t \in Tasks :
             (task[t].pc \notin {"idle", "done"} /\ task'[t] # task[t]) =>
                 RequestsLeft(task'[t].pc) < RequestsLeft(task[t].pc)]_vars

\* an invocation returned after four requests, the retry refused again
C25_Witness ==
    \E t \in Tasks :
        /\ Ended(t) /\ RequestsMade(t) = 4
        /\ task[t].retry.kind = "resp" /\ task[t].retry.status = 402

----------------------------------------------------------------------------
(* C26 *)

\* C26: _telemetry_sent is never reset; a telemetry request that is answered,
\* with any status and for either event, sets it and one that raises leaves
\* it as it is; and once it is set a report of "install" returns at once,
\* without a request.
C26_FlagMonotonicAndShared ==
    /\ [](\A t \in Tasks :
             task[t].telemetryResult.kind = "resp" => _telemetry_sent)
    /\ [][/\ _telemetry_sent => _telemetry_sent'
          /\ \A t \in Tasks :
                (task[t].pc = "telemetry" /\ task'[t].pc # "telemetry") =>
                    /\ task'[t].telemetryResult.kind = "resp" => _telemetry_sent'
                    /\ task'[t].telemetryResult.kind = "raise" =>
                           _telemetry_sent' = _telemetry_sent
          /\ \A t \in Tasks :
                (/\ _telemetry_sent /\ task[t].pc = "idle"
                 /\ task'[t].op = "report" /\ task'[t].event = "install") =>
                    /\ task'[t].pc = "done"
                    /\ task'[t].telemetry = NoPayload
                    /\ task'[t].clients = 0]_vars

\* a report of "install" returned without a request while the flag had been
\* set by the usage message of an invocation that was answered 500
C26_Witness ==
    \E t, u \in Tasks :
        /\ _telemetry_sent
        /\ task[t].op = "report" /\ task[t].event = "install"
        /\ task[t].pc = "done" /\ task[t].telemetry = NoPayload /\ ~task[t].idFailed
        /\ Invocation(u) /\ task[u].telemetryResult = Resp(500, BadJson)

----------------------------------------------------------------------------
(* C27 *)

\* C27: when the retry is answered with a status other than 200, 402 again
\* among them, the invocation returns the payment-required dict with the price
\* read from the first 402 answer, whatever the body of the retry's answer.
C27_PriceFromFirst402 ==
    \A t \in Tasks :
        (/\ Ended(t) /\ task[t].retried # NoRequest
         /\ task[t].retry.kind = "resp" /\ task[t].retry.status # 200) =>
            /\ task[t].result.variant = "PaymentRequired"
            /\ task[t].result.price_usd =
                   Get(Get(task[t].first.body.fields, "accepts", << <<>> >>)[1],
                       "maxAmountRequiredUSD", "Unknown")

\* the first answer asked 0.50, the retry's answer asked 0.75, and 0.50 is
\* what the invocation returned
C27_Witness ==
    \E t \in Tasks :
        /\ Ended(t)
        /\ task[t].first = Resp(402, PriceBody("0.50"))
        /\ task[t].retry = Resp(402, PriceBody("0.75"))
        /\ task[t].result.price_usd = "0.50"

====
